---- MODULE Spec2Model ----
(***************************************************************************)
(* Toshi: the summary and flush handlers (handlers/summary.rs) running as  *)
(* concurrent tasks over the shared Catalog and the per-index writers.     *)
(*                                                                         *)
(* Every task serves one request.  A task's position (pc) is the line of   *)
(* the handler it is about to execute; the two `.await` points on a lock   *)
(* are positions where the task waits until the lock is free.  A lock      *)
(* guard bound with `let` lives until the end of the function body (or     *)
(* until a panic unwinds through it), so a lock is released only by the    *)
(* returning / panicking step.                                             *)
(***************************************************************************)
EXTENDS Integers, FiniteSets, Sequences, TLC

\* ---------------------------------------------------------------- bounds
NumTasks == 2
MaxDocs == 1
MaxShards == 2

Tasks == 1..NumTasks
Names == {"idx_a", "idx_b"}
\* A handle is identified by the name it was opened under (get_name()).
Handles == Names

\* ------------------------------------------------------------ constants
NoTask == 0
NoHandle == "none"
OK == 200
NOT_FOUND == 404

\* Option<T> is a sequence of length at most one.
None == <<>>
Some(x) == <<x>>

VARIABLES
    catalog,      \* the Catalog's map: index name -> handle (or NoHandle)
    catalogLock,  \* the task holding the Catalog lock's guard, or NoTask
    writerLock,   \* per handle: the task holding the Writer Lock's guard
    written,      \* per handle: number of documents handed to the writer
    committed,    \* per handle: number of documents in the committed state
    pc,           \* per task: position in its handler
    req,          \* per task: the request (handler, index name, options)
    local_index,  \* per task: the handle reference obtained from get_index
    metas,        \* per task: the summary handler's local `metas`
    summary,      \* per task: the summary handler's local `summary`
    resp,         \* per task: the response the handler returned
    calls,        \* per task: the operations the handler has invoked so far
                  \* (exists with the answer it gave)
    snap,         \* per task: documents written when its commit() started
    shards,       \* per slot: the PrimaryShard / ReplicaShard value held there
    lastOp        \* the last operation applied to a shard, with its result

handlerVars == <<catalog, catalogLock, writerLock, written, committed, pc, req,
                 local_index, metas, summary, resp, calls, snap>>
shardVars == <<shards, lastOp>>

vars == <<catalog, catalogLock, writerLock, written, committed, pc, req,
          local_index, metas, summary, resp, calls, snap, shards, lastOp>>

shared == <<catalog, catalogLock, writerLock, written, committed>>
engine == <<catalog, writerLock, written, committed>>

NoReq == [handler |-> "none", index |-> "", include_sizes |-> FALSE]
NoResp == [kind |-> "none", status |-> None, metas |-> None, size |-> None,
           message |-> <<>>]
NoSummary == [metas |-> None, size |-> None]

\* ------------------------------------------------ Catalog and IndexHandle
\* Catalog::exists(name)
exists(name) == catalog[name] # NoHandle

\* Catalog::get_index(name): the handle registered under the name
get_index(name) == IF catalog[name] # NoHandle THEN Some(catalog[name]) ELSE None

\* IndexHandle::load_metas(): committed metadata only
load_metas(h) == committed[h]

\* IndexHandle::get_space(): footprint of the committed on-disk state
get_space(h) == <<"bytes", committed[h]>>

\* writer.commit(): every document handed to the writer becomes committed
commit(h) == [committed EXCEPT ![h] = written[h]]

\* Mutant: the message names a fixed index instead of the requested one.
NotExistMessage_FixedName(index) == <<"Index ", "idx_a", " does not exist">>

\* format!("Index {} does not exist", index)
NotExistMessage(index) == <<"Index ", index, " does not exist">>

\* SummaryResponse::new(metas, size)
SummaryResponse(m, s) == [metas |-> Some(m), size |-> s]

\* empty_with_code(code)
empty_with_code(code) ==
    [kind |-> "empty", status |-> Some(code), metas |-> None, size |-> None,
     message |-> <<>>]

\* with_body(summary)
with_body(s) ==
    [kind |-> "summary", status |-> Some(OK), metas |-> s.metas, size |-> s.size,
     message |-> <<>>]

\* Response::from(Error::IOError(msg))
error_response(msg) ==
    [kind |-> "error", status |-> None, metas |-> None, size |-> None,
     message |-> msg]

\* ------------------------------------------- shards (cluster/shard.rs)
\* Values Uuid::new_v4() may return.
Uuids == {"u1", "u2"}
Slots == 1..MaxShards
NoUuid == ""

\* No shard value is held in the slot.
NoShard == [kind |-> "none", shard_id |-> NoUuid, primary_shard_id |-> NoUuid,
            index_handle |-> None]
NoOp == [op |-> "none", slot |-> 0, src |-> 0, ok |-> TRUE, wire |-> <<>>,
         error |-> <<>>]

\* Error::IOError(msg)
IOError(msg) == <<"IOError", msg>>

\* LocalIndex::new(index, settings, &name): the handle, or the open failure
LocalIndex_new(name, opens) ==
    IF opens THEN [ok |-> TRUE, handle |-> name, error |-> ""]
             ELSE [ok |-> FALSE, handle |-> NoHandle, error |-> "open failed"]

\* LocalIndex::get_name()
get_name(lh) == lh

\* l. 55-62: impl Default for PrimaryShard, with the id new_v4() returned
PrimaryShard_default(u) ==
    [kind |-> "primary", shard_id |-> u, primary_shard_id |-> NoUuid,
     index_handle |-> None]

\* l. 38-40: PrimaryShard::new
PrimaryShard_new(u) == PrimaryShard_default(u)

\* Mutant: the two ids are stored in each other's field.
ReplicaShard_new_SwapsIds(primary_shard_id, u) ==
    [kind |-> "replica", shard_id |-> primary_shard_id, primary_shard_id |-> u,
     index_handle |-> None]

\* l. 91-97: ReplicaShard::new, with the id new_v4() returned
ReplicaShard_new(primary_shard_id, u) ==
    [kind |-> "replica", shard_id |-> u, primary_shard_id |-> primary_shard_id,
     index_handle |-> None]

\* Mutant: the shard returned on Ok is rebuilt with a newly drawn id.
PrimaryShard_with_index_NewId(self, name, opens) ==
    LET r == LocalIndex_new(name, opens)
    IN IF r.ok
          THEN [ok |-> TRUE,
                shard |-> [PrimaryShard_default(CHOOSE u \in Uuids : u # self.shard_id)
                              EXCEPT !.index_handle = Some(r.handle)],
                error |-> <<>>]
          ELSE [ok |-> FALSE, shard |-> NoShard, error |-> IOError(r.error)]

\* l. 43-52: PrimaryShard::with_index; self is consumed, and returned on Ok
PrimaryShard_with_index(self, name, opens) ==
    LET r == LocalIndex_new(name, opens)
    IN IF r.ok
          THEN [ok |-> TRUE, shard |-> [self EXCEPT !.index_handle = Some(r.handle)],
                error |-> <<>>]
          ELSE [ok |-> FALSE, shard |-> NoShard, error |-> IOError(r.error)]

\* l. 100-109: ReplicaShard::with_index
ReplicaShard_with_index(self, name, opens) ==
    LET r == LocalIndex_new(name, opens)
    IN IF r.ok
          THEN [ok |-> TRUE, shard |-> [self EXCEPT !.index_handle = Some(r.handle)],
                error |-> <<>>]
          ELSE [ok |-> FALSE, shard |-> NoShard, error |-> IOError(r.error)]

\* Mutant: a primary reports it is not one.
PrimaryShard_is_primary_False(self) == FALSE

\* l. 66-68, 71-73, 76-78: impl Shard for PrimaryShard
PrimaryShard_shard_id(self) == self.shard_id
PrimaryShard_primary_shard_id(self) == None
PrimaryShard_is_primary(self) == TRUE

\* Mutant: without a handle the name defaults to the empty string.
PrimaryShard_index_name_Default(self) ==
    IF self.index_handle # None
       THEN [ok |-> TRUE, value |-> get_name(self.index_handle[1]), error |-> <<>>]
       ELSE [ok |-> TRUE, value |-> "", error |-> <<>>]

\* l. 81-86: PrimaryShard::index_name
PrimaryShard_index_name(self) ==
    IF self.index_handle # None
       THEN [ok |-> TRUE, value |-> get_name(self.index_handle[1]), error |-> <<>>]
       ELSE [ok |-> FALSE, value |-> "", error |-> IOError("Unable to get index handle")]

\* l. 114-116, 120-122, 125-127: impl Shard for ReplicaShard
ReplicaShard_shard_id(self) == self.shard_id
ReplicaShard_primary_shard_id(self) == Some(self.primary_shard_id)
ReplicaShard_is_primary(self) == FALSE

\* l. 130-135: ReplicaShard::index_name
ReplicaShard_index_name(self) ==
    IF self.index_handle # None
       THEN [ok |-> TRUE, value |-> get_name(self.index_handle[1]), error |-> <<>>]
       ELSE [ok |-> FALSE, value |-> "", error |-> IOError("No index with that name exists")]

\* l. 12-17: trait Shard, dispatched on the implementing type
shard_id(s) ==
    IF s.kind = "primary" THEN PrimaryShard_shard_id(s) ELSE ReplicaShard_shard_id(s)
primary_shard_id(s) ==
    IF s.kind = "primary" THEN PrimaryShard_primary_shard_id(s)
                          ELSE ReplicaShard_primary_shard_id(s)
is_primary(s) ==
    IF s.kind = "primary" THEN PrimaryShard_is_primary(s) ELSE ReplicaShard_is_primary(s)
index_name(s) ==
    IF s.kind = "primary" THEN PrimaryShard_index_name(s) ELSE ReplicaShard_index_name(s)

\* Mutant: index_handle is serialized like the other fields.
PrimaryShard_serialize_WithHandle(self) ==
    << <<"shard_id", self.shard_id>>, <<"index_handle", self.index_handle>> >>

\* l. 20-25: #[derive(Serialize)] for PrimaryShard; index_handle is skipped.
\* The serialized form is the sequence of its (field, value) pairs.
PrimaryShard_serialize(self) == << <<"shard_id", self.shard_id>> >>

\* l. 28-34: #[derive(Serialize)] for ReplicaShard; index_handle is skipped.
ReplicaShard_serialize(self) ==
    << <<"shard_id", self.shard_id>>, <<"primary_shard_id", self.primary_shard_id>> >>

\* The value of a field of a serialized form.
Field(wire, name) == (CHOOSE i \in 1..Len(wire) : wire[i][1] = name)

\* l. 20-25: #[derive(Deserialize)] for PrimaryShard; the skipped
\* index_handle takes its default, None.
PrimaryShard_deserialize(wire) ==
    [kind |-> "primary", shard_id |-> wire[Field(wire, "shard_id")][2],
     primary_shard_id |-> NoUuid, index_handle |-> None]

\* l. 28-34: #[derive(Deserialize)] for ReplicaShard
ReplicaShard_deserialize(wire) ==
    [kind |-> "replica", shard_id |-> wire[Field(wire, "shard_id")][2],
     primary_shard_id |-> wire[Field(wire, "primary_shard_id")][2],
     index_handle |-> None]

\* ------------------------------------------------------------------ Init
TypeOK ==
    /\ catalog \in [Names -> Handles \cup {NoHandle}]
    /\ catalogLock \in Tasks \cup {NoTask}
    /\ writerLock \in [Handles -> Tasks \cup {NoTask}]
    /\ written \in [Handles -> 0..MaxDocs]
    /\ committed \in [Handles -> 0..MaxDocs]
    /\ \A h \in Handles : committed[h] <= written[h]

Init ==
    /\ catalog = [n \in Names |-> NoHandle]
    /\ catalogLock = NoTask
    /\ writerLock = [h \in Handles |-> NoTask]
    /\ written = [h \in Handles |-> 0]
    /\ committed = [h \in Handles |-> 0]
    /\ pc = [t \in Tasks |-> "idle"]
    /\ req = [t \in Tasks |-> NoReq]
    /\ local_index = [t \in Tasks |-> NoHandle]
    /\ metas = [t \in Tasks |-> None]
    /\ summary = [t \in Tasks |-> NoSummary]
    /\ resp = [t \in Tasks |-> NoResp]
    /\ calls = [t \in Tasks |-> {}]
    /\ snap = [t \in Tasks |-> 0]
    /\ shards = [i \in Slots |-> NoShard]
    /\ lastOp = NoOp

\* The guards a task owns are dropped when its handler returns or unwinds.
ReleaseWriter(t) == [h \in Handles |-> IF writerLock[h] = t THEN NoTask ELSE writerLock[h]]

\* The handler's local bindings go out of scope with its body.
DropLocals(t) ==
    /\ local_index' = [local_index EXCEPT ![t] = NoHandle]
    /\ metas' = [metas EXCEPT ![t] = None]
    /\ summary' = [summary EXCEPT ![t] = NoSummary]

\* A panic (a failed unwrap) unwinds the handler: its locals and guards are
\* dropped and the task ends without a response.
Unwind(t) ==
    /\ pc' = [pc EXCEPT ![t] = "panicked"]
    /\ DropLocals(t)
    /\ catalogLock' = IF catalogLock = t THEN NoTask ELSE catalogLock
    /\ writerLock' = ReleaseWriter(t)

\* ------------------------------------------------------- flush (l. 37-53)
\* A flush request for some index name arrives (l. 37).
StartFlush(t) ==
    /\ pc[t] = "idle"
    /\ \E n \in Names :
          req' = [req EXCEPT ![t] = [handler |-> "flush", index |-> n,
                                     include_sizes |-> FALSE]]
    /\ pc' = [pc EXCEPT ![t] = "f_lock_catalog"]
    /\ UNCHANGED <<shared, local_index, metas, summary, resp, calls, snap>>
    /\ UNCHANGED shardVars

\* l. 40: let index_lock = catalog.lock().await;
FlushLockCatalog(t) ==
    /\ pc[t] = "f_lock_catalog"
    /\ catalogLock = NoTask
    /\ catalogLock' = t
    /\ pc' = [pc EXCEPT ![t] = "f_exists"]
    /\ UNCHANGED <<engine, req, local_index, metas, summary, resp, calls, snap>>
    /\ UNCHANGED shardVars

\* Mutant: the Catalog lock is given back as soon as exists() has answered.
FlushExists_ReleasesLock(t) ==
    /\ pc[t] = "f_exists"
    /\ calls' = [calls EXCEPT ![t] = @ \cup {IF exists(req[t].index)
                                                 THEN "exists=true"
                                                 ELSE "exists=false"}]
    /\ pc' = [pc EXCEPT ![t] = IF exists(req[t].index) THEN "f_get_index"
                                                       ELSE "f_not_found"]
    /\ catalogLock' = NoTask
    /\ UNCHANGED <<engine, req, local_index, metas, summary, resp, snap>>
    /\ UNCHANGED shardVars

\* l. 41: if index_lock.exists(&index)
FlushExists(t) ==
    /\ pc[t] = "f_exists"
    /\ calls' = [calls EXCEPT ![t] = @ \cup {IF exists(req[t].index)
                                                 THEN "exists=true"
                                                 ELSE "exists=false"}]
    /\ pc' = [pc EXCEPT ![t] = IF exists(req[t].index) THEN "f_get_index"
                                                       ELSE "f_not_found"]
    /\ UNCHANGED <<shared, req, local_index, metas, summary, resp, snap>>
    /\ UNCHANGED shardVars

\* Mutant: the handle of some registered index is taken, whatever its name.
FlushGetIndex_AnyIndex(t) ==
    /\ pc[t] = "f_get_index"
    /\ calls' = [calls EXCEPT ![t] = @ \cup {"get_index"}]
    /\ \E n \in Names :
          /\ get_index(n) # None
          /\ local_index' = [local_index EXCEPT ![t] = get_index(n)[1]]
    /\ pc' = [pc EXCEPT ![t] = "f_lock_writer"]
    /\ UNCHANGED <<catalogLock, writerLock, metas, summary>>
    /\ UNCHANGED <<catalog, written, committed, req, resp, snap>>
    /\ UNCHANGED shardVars

\* l. 42-43: index_lock.get_index(&index).unwrap(); local_index.get_writer()
FlushGetIndex(t) ==
    /\ pc[t] = "f_get_index"
    /\ calls' = [calls EXCEPT ![t] = @ \cup {"get_index"}]
    /\ IF get_index(req[t].index) = None
          THEN Unwind(t)
          ELSE /\ local_index' = [local_index EXCEPT ![t] = get_index(req[t].index)[1]]
               /\ pc' = [pc EXCEPT ![t] = "f_lock_writer"]
               /\ UNCHANGED <<catalogLock, writerLock, metas, summary>>
    /\ UNCHANGED <<catalog, written, committed, req, resp, snap>>
    /\ UNCHANGED shardVars

\* Mutant: the flush goes on to commit() without owning the Writer Lock.
FlushLockWriter_NoGuard(t) ==
    /\ pc[t] = "f_lock_writer"
    /\ calls' = [calls EXCEPT ![t] = @ \cup {"writer_lock"}]
    /\ snap' = [snap EXCEPT ![t] = written[local_index[t]]]
    /\ pc' = [pc EXCEPT ![t] = "f_commit"]
    /\ UNCHANGED <<catalog, catalogLock, writerLock, written, committed, req,
                   local_index, metas, summary, resp>>
    /\ UNCHANGED shardVars

\* l. 44: let mut write = writer.lock().await;
FlushLockWriter(t) ==
    /\ pc[t] = "f_lock_writer"
    /\ writerLock[local_index[t]] = NoTask
    /\ writerLock' = [writerLock EXCEPT ![local_index[t]] = t]
    /\ calls' = [calls EXCEPT ![t] = @ \cup {"writer_lock"}]
    /\ snap' = [snap EXCEPT ![t] = written[local_index[t]]]
    /\ pc' = [pc EXCEPT ![t] = "f_commit"]
    /\ UNCHANGED <<catalog, catalogLock, written, committed, req, local_index,
                   metas, summary, resp>>
    /\ UNCHANGED shardVars

\* Mutant: the result of commit() is ignored instead of unwrapped.
FlushCommit_IgnoresResult(t) ==
    /\ pc[t] = "f_commit"
    /\ calls' = [calls EXCEPT ![t] = @ \cup {"commit"}]
    /\ \/ committed' = commit(local_index[t])
       \/ UNCHANGED committed
    /\ pc' = [pc EXCEPT ![t] = "f_ok"]
    /\ UNCHANGED <<catalog, catalogLock, writerLock, written, req, local_index,
                   metas, summary, resp, snap>>
    /\ UNCHANGED shardVars

\* l. 46: write.commit().unwrap();  the engine either commits or reports a
\* failure, and unwrap() panics on the failure.
FlushCommit(t) ==
    /\ pc[t] = "f_commit"
    /\ calls' = [calls EXCEPT ![t] = @ \cup {"commit"}]
    /\ \/ /\ committed' = commit(local_index[t])
          /\ pc' = [pc EXCEPT ![t] = "f_ok"]
          /\ UNCHANGED <<catalogLock, writerLock, local_index, metas, summary>>
       \/ /\ Unwind(t)
          /\ UNCHANGED committed
    /\ UNCHANGED <<catalog, written, req, resp, snap>>
    /\ UNCHANGED shardVars

\* l. 47-48 and the end of the body: Ok(empty_with_code(StatusCode::OK));
\* `write` and `index_lock` go out of scope.
FlushOk(t) ==
    /\ pc[t] = "f_ok"
    /\ resp' = [resp EXCEPT ![t] = empty_with_code(OK)]
    /\ writerLock' = ReleaseWriter(t)
    /\ catalogLock' = NoTask
    /\ DropLocals(t)
    /\ pc' = [pc EXCEPT ![t] = "done"]
    /\ UNCHANGED <<catalog, written, committed, req, calls, snap>>
    /\ UNCHANGED shardVars

\* Mutant: the not-found branch answers with the success code.
FlushNotFound_ReturnsOk(t) ==
    /\ pc[t] = "f_not_found"
    /\ resp' = [resp EXCEPT ![t] = empty_with_code(OK)]
    /\ catalogLock' = NoTask
    /\ DropLocals(t)
    /\ pc' = [pc EXCEPT ![t] = "done"]
    /\ UNCHANGED <<engine, req, calls, snap>>
    /\ UNCHANGED shardVars

\* l. 50-51 and the end of the body: Ok(empty_with_code(StatusCode::NOT_FOUND))
FlushNotFound(t) ==
    /\ pc[t] = "f_not_found"
    /\ resp' = [resp EXCEPT ![t] = empty_with_code(NOT_FOUND)]
    /\ catalogLock' = NoTask
    /\ DropLocals(t)
    /\ pc' = [pc EXCEPT ![t] = "done"]
    /\ UNCHANGED <<engine, req, calls, snap>>
    /\ UNCHANGED shardVars

\* ----------------------------------------------- index_summary (l. 13-35)
\* A summary request arrives with its index name and options (l. 13).
StartSummary(t) ==
    /\ pc[t] = "idle"
    /\ \E n \in Names, b \in BOOLEAN :
          req' = [req EXCEPT ![t] = [handler |-> "summary", index |-> n,
                                     include_sizes |-> b]]
    /\ pc' = [pc EXCEPT ![t] = "s_lock_catalog"]
    /\ UNCHANGED <<shared, local_index, metas, summary, resp, calls, snap>>
    /\ UNCHANGED shardVars

\* l. 18: let index_lock = catalog.lock().await;
SummaryLockCatalog(t) ==
    /\ pc[t] = "s_lock_catalog"
    /\ catalogLock = NoTask
    /\ catalogLock' = t
    /\ pc' = [pc EXCEPT ![t] = "s_exists"]
    /\ UNCHANGED <<engine, req, local_index, metas, summary, resp, calls, snap>>
    /\ UNCHANGED shardVars

\* l. 19: if index_lock.exists(&index)
SummaryExists(t) ==
    /\ pc[t] = "s_exists"
    /\ calls' = [calls EXCEPT ![t] = @ \cup {IF exists(req[t].index)
                                                 THEN "exists=true"
                                                 ELSE "exists=false"}]
    /\ pc' = [pc EXCEPT ![t] = IF exists(req[t].index) THEN "s_get_index"
                                                       ELSE "s_not_found"]
    /\ UNCHANGED <<shared, req, local_index, metas, summary, resp, snap>>
    /\ UNCHANGED shardVars

\* l. 20: let index = index_lock.get_index(&index).unwrap();
SummaryGetIndex(t) ==
    /\ pc[t] = "s_get_index"
    /\ calls' = [calls EXCEPT ![t] = @ \cup {"get_index"}]
    /\ IF get_index(req[t].index) = None
          THEN Unwind(t)
          ELSE /\ local_index' = [local_index EXCEPT ![t] = get_index(req[t].index)[1]]
               /\ pc' = [pc EXCEPT ![t] = "s_load_metas"]
               /\ UNCHANGED <<catalogLock, writerLock, metas, summary>>
    /\ UNCHANGED <<catalog, written, committed, req, resp, snap>>
    /\ UNCHANGED shardVars

\* l. 21: let metas = index.get_index().load_metas().unwrap();  the engine
\* either returns the committed metadata or reports a failure.
SummaryLoadMetas(t) ==
    /\ pc[t] = "s_load_metas"
    /\ calls' = [calls EXCEPT ![t] = @ \cup {"load_metas"}]
    /\ \/ /\ metas' = [metas EXCEPT ![t] = Some(load_metas(local_index[t]))]
          /\ pc' = [pc EXCEPT ![t] = "s_sizes"]
          /\ UNCHANGED <<catalogLock, writerLock, local_index, summary>>
       \/ Unwind(t)
    /\ UNCHANGED <<catalog, written, committed, req, resp, snap>>
    /\ UNCHANGED shardVars

\* Mutant: the include_sizes test is inverted.
SummarySizes_Inverted(t) ==
    /\ pc[t] = "s_sizes"
    /\ IF ~req[t].include_sizes
          THEN /\ summary' = [summary EXCEPT ![t] =
                     SummaryResponse(metas[t][1], Some(get_space(local_index[t])))]
               /\ calls' = [calls EXCEPT ![t] = @ \cup {"get_space"}]
          ELSE /\ summary' = [summary EXCEPT ![t] = SummaryResponse(metas[t][1], None)]
               /\ UNCHANGED calls
    /\ pc' = [pc EXCEPT ![t] = "s_ok"]
    /\ UNCHANGED <<shared, req, local_index, metas, resp, snap>>
    /\ UNCHANGED shardVars

\* l. 22-26: the summary carries get_space() only when include_sizes is set
SummarySizes(t) ==
    /\ pc[t] = "s_sizes"
    /\ IF req[t].include_sizes
          THEN /\ summary' = [summary EXCEPT ![t] =
                     SummaryResponse(metas[t][1], Some(get_space(local_index[t])))]
               /\ calls' = [calls EXCEPT ![t] = @ \cup {"get_space"}]
          ELSE /\ summary' = [summary EXCEPT ![t] = SummaryResponse(metas[t][1], None)]
               /\ UNCHANGED calls
    /\ pc' = [pc EXCEPT ![t] = "s_ok"]
    /\ UNCHANGED <<shared, req, local_index, metas, resp, snap>>
    /\ UNCHANGED shardVars

\* l. 27-28 and the end of the body: Ok(with_body(summary)); `index_lock`
\* goes out of scope.
SummaryOk(t) ==
    /\ pc[t] = "s_ok"
    /\ resp' = [resp EXCEPT ![t] = with_body(summary[t])]
    /\ catalogLock' = NoTask
    /\ DropLocals(t)
    /\ pc' = [pc EXCEPT ![t] = "done"]
    /\ UNCHANGED <<engine, req, calls, snap>>
    /\ UNCHANGED shardVars

\* l. 30-33 and the end of the body: the IOError "Index {} does not exist"
\* is turned into the response.
SummaryNotFound(t) ==
    /\ pc[t] = "s_not_found"
    /\ resp' = [resp EXCEPT ![t] = error_response(NotExistMessage(req[t].index))]
    /\ catalogLock' = NoTask
    /\ DropLocals(t)
    /\ pc' = [pc EXCEPT ![t] = "done"]
    /\ UNCHANGED <<engine, req, calls, snap>>
    /\ UNCHANGED shardVars

\* ------------------------------------------------------------ environment
RECURSIVE SumWritten(_)
SumWritten(S) ==
    IF S = {} THEN 0
    ELSE LET h == CHOOSE x \in S : TRUE IN written[h] + SumWritten(S \ {h})

\* Documents handed to the writers of all indices so far.
TotalWritten == SumWritten(Handles)

\* A document is handed to an index's writer (under its Writer Lock); it is
\* buffered until the next commit.
AddDocument(h) ==
    /\ \E n \in Names : catalog[n] = h
    /\ writerLock[h] = NoTask
    /\ TotalWritten < MaxDocs
    /\ written' = [written EXCEPT ![h] = @ + 1]
    /\ UNCHANGED <<catalog, catalogLock, writerLock, committed, pc, req,
                   local_index, metas, summary, resp, calls, snap>>
    /\ UNCHANGED shardVars

\* The index opened under name n is registered in the Catalog (under its lock).
CatalogInsert(n) ==
    /\ catalogLock = NoTask
    /\ catalog[n] = NoHandle
    /\ catalog' = [catalog EXCEPT ![n] = n]
    /\ UNCHANGED <<catalogLock, writerLock, written, committed, pc, req,
                   local_index, metas, summary, resp, calls, snap>>
    /\ UNCHANGED shardVars

\* An index is removed from the Catalog (under its lock).
CatalogRemove(n) ==
    /\ catalogLock = NoTask
    /\ catalog[n] # NoHandle
    /\ catalog' = [catalog EXCEPT ![n] = NoHandle]
    /\ UNCHANGED <<catalogLock, writerLock, written, committed, pc, req,
                   local_index, metas, summary, resp, calls, snap>>
    /\ UNCHANGED shardVars

\* -------------------------------------------------------- cancellation
\* The places where a handler is suspended: l. 18, 40 (catalog.lock().await)
\* and l. 44 (writer.lock().await).
SuspensionPoints == {"f_lock_catalog", "s_lock_catalog", "f_lock_writer"}

\* Mutant: the guard held at the suspension point outlives the future.
Cancel_KeepsGuard(t) ==
    /\ pc[t] \in SuspensionPoints
    /\ pc' = [pc EXCEPT ![t] = "cancelled"]
    /\ DropLocals(t)
    /\ req' = [req EXCEPT ![t] = [NoReq EXCEPT !.handler = req[t].handler]]
    /\ UNCHANGED <<catalog, catalogLock, writerLock, written, committed, resp,
                   calls, snap>>
    /\ UNCHANGED shardVars

\* The caller drops the handler's future while it is suspended: the
\* arguments, the locals and the guards it owns (index_lock, when it waits
\* for the Writer Lock) are dropped, and the handler never runs again.
Cancel(t) ==
    /\ pc[t] \in SuspensionPoints
    /\ pc' = [pc EXCEPT ![t] = "cancelled"]
    /\ DropLocals(t)
    /\ req' = [req EXCEPT ![t] = [NoReq EXCEPT !.handler = req[t].handler]]
    /\ catalogLock' = IF catalogLock = t THEN NoTask ELSE catalogLock
    /\ writerLock' = ReleaseWriter(t)
    /\ UNCHANGED <<catalog, written, committed, resp, calls, snap>>
    /\ UNCHANGED shardVars

\* ------------------------------------------------------------------ Next
Flush(t) ==
    \/ StartFlush(t)
    \/ FlushLockCatalog(t)
    \/ FlushExists(t)
    \/ FlushGetIndex(t)
    \/ FlushLockWriter(t)
    \/ FlushCommit(t)
    \/ FlushOk(t)
    \/ FlushNotFound(t)

IndexSummary(t) ==
    \/ StartSummary(t)
    \/ SummaryLockCatalog(t)
    \/ SummaryExists(t)
    \/ SummaryGetIndex(t)
    \/ SummaryLoadMetas(t)
    \/ SummarySizes(t)
    \/ SummaryOk(t)
    \/ SummaryNotFound(t)

Next ==
    \/ \E t \in Tasks : Flush(t) \/ IndexSummary(t)
    \/ \E t \in Tasks : Cancel(t)
    \/ \E h \in Handles : AddDocument(h)
    \/ \E n \in Names : CatalogInsert(n)
    \/ \E n \in Names : CatalogRemove(n)

Spec == Init /\ [][Next]_vars

\* The requests that are never cancelled, under the scheduling the runtime
\* gives them: a handler that can run is run, and the locks are fair (a task
\* that finds its lock free again and again gets it).
LiveNext ==
    \/ \E t \in Tasks : Flush(t) \/ IndexSummary(t)
    \/ \E h \in Handles : AddDocument(h)
    \/ \E n \in Names : CatalogInsert(n)
    \/ \E n \in Names : CatalogRemove(n)

Runs(t) ==
    \/ FlushExists(t) \/ FlushGetIndex(t) \/ FlushCommit(t)
    \/ FlushOk(t) \/ FlushNotFound(t)
    \/ SummaryExists(t) \/ SummaryGetIndex(t) \/ SummaryLoadMetas(t)
    \/ SummarySizes(t) \/ SummaryOk(t) \/ SummaryNotFound(t)

Locks(t) == FlushLockCatalog(t) \/ SummaryLockCatalog(t) \/ FlushLockWriter(t)

LiveSpec ==
    /\ Init
    /\ [][LiveNext]_vars
    /\ \A t \in Tasks : WF_vars(Runs(t)) /\ SF_vars(Locks(t))

\* ------------------------------------------------ shard operations
\* PrimaryShard::new() / default() creates a shard with a random id.
ShardPrimaryNew(i) ==
    /\ shards[i] = NoShard
    /\ \E u \in Uuids : shards' = [shards EXCEPT ![i] = PrimaryShard_new(u)]
    /\ lastOp' = [NoOp EXCEPT !.op = "new", !.slot = i]
    /\ UNCHANGED handlerVars

\* ReplicaShard::new(primary_shard_id) creates a replica with a random id.
ShardReplicaNew(i) ==
    /\ shards[i] = NoShard
    /\ \E p \in Uuids, u \in Uuids :
          /\ shards' = [shards EXCEPT ![i] = ReplicaShard_new(p, u)]
          /\ lastOp' = [NoOp EXCEPT !.op = "new", !.slot = i, !.wire = <<p>>]
    /\ UNCHANGED handlerVars

\* shard.with_index(index, name): the shard is moved into the call; it comes
\* back with the handle on Ok and is dropped on Err.
ShardWithIndex(i) ==
    /\ shards[i] # NoShard
    /\ \E n \in Names, opens \in BOOLEAN :
          LET r == IF shards[i].kind = "primary"
                      THEN PrimaryShard_with_index(shards[i], n, opens)
                      ELSE ReplicaShard_with_index(shards[i], n, opens)
          IN /\ shards' = [shards EXCEPT ![i] = r.shard]
             /\ lastOp' = [NoOp EXCEPT !.op = "with_index", !.slot = i,
                                       !.ok = r.ok, !.wire = <<n>>,
                                       !.error = r.error]
    /\ UNCHANGED handlerVars

\* The shard in slot i is serialized.
ShardSerialize(i) ==
    /\ shards[i] # NoShard
    /\ lastOp' = [NoOp EXCEPT !.op = "serialize", !.slot = i,
                              !.wire = IF shards[i].kind = "primary"
                                          THEN PrimaryShard_serialize(shards[i])
                                          ELSE ReplicaShard_serialize(shards[i])]
    /\ UNCHANGED <<shards, handlerVars>>

\* The form just serialized is deserialized, as the type it came from, into
\* a free slot.
ShardDeserialize(j) ==
    /\ lastOp.op = "serialize"
    /\ shards[j] = NoShard
    /\ shards' = [shards EXCEPT ![j] =
                     IF shards[lastOp.slot].kind = "primary"
                        THEN PrimaryShard_deserialize(lastOp.wire)
                        ELSE ReplicaShard_deserialize(lastOp.wire)]
    /\ lastOp' = [NoOp EXCEPT !.op = "deserialize", !.slot = j,
                              !.src = lastOp.slot, !.wire = lastOp.wire]
    /\ UNCHANGED handlerVars

ShardNext ==
    \E i \in Slots :
        \/ ShardPrimaryNew(i)
        \/ ShardReplicaNew(i)
        \/ ShardWithIndex(i)
        \/ ShardSerialize(i)
        \/ ShardDeserialize(i)

ShardSpec == Init /\ [][ShardNext]_vars

\* ------------------------------------------------------------ vocabulary
IsFlush(t) == req[t].handler = "flush"
IsSummary(t) == req[t].handler = "summary"

\* The task is waiting for its index's Writer Lock or executing commit().
InCommit(t) == pc[t] \in {"f_lock_writer", "f_commit"}

\* The task is suspended on the Catalog lock, which task u holds.
BlockedOnCatalogBy(t, u) ==
    /\ pc[t] \in {"f_lock_catalog", "s_lock_catalog"}
    /\ u # NoTask
    /\ catalogLock = u

\* The task is suspended on a Writer Lock, which task u holds.
BlockedOnWriterBy(t, u) ==
    /\ pc[t] = "f_lock_writer"
    /\ u # NoTask
    /\ writerLock[local_index[t]] = u

HoldsNoLock(t) == catalogLock # t /\ \A h \in Handles : writerLock[h] # t

\* The step is one of task t's handler.
StepOf(t) == pc'[t] # pc[t]

\* ---------------------------------------------------------------- claims

\* C1: a task that is executing commit() on an index's writer, or waiting
\* for that index's Writer Lock, does not hold the Catalog lock.
C1_CatalogLockNotHeldDuringCommit ==
    \A t \in Tasks : InCommit(t) => catalogLock # t

\* C2: no flush or summary of an index B is blocked on a lock held by a task
\* that is inside commit() (or waiting for the Writer Lock) of another index A.
C2_DifferentIndicesNeverContend ==
    \A t \in Tasks, u \in Tasks :
        (t # u /\ InCommit(t) /\ req[u].index # req[t].index)
            => ~(BlockedOnCatalogBy(u, t) \/ BlockedOnWriterBy(u, t))

\* C3: for every index at most one task is inside commit() and it holds that
\* index's Writer Lock; a commit begins only when the Writer Lock was free,
\* i.e. after any earlier flush of the same index has released it.
C3_CommitsSerialized ==
    /\ [](\A h \in Handles :
            LET inside == {t \in Tasks : pc[t] = "f_commit" /\ local_index[t] = h}
            IN /\ Cardinality(inside) <= 1
               /\ \A t \in inside : writerLock[h] = t)
    /\ [][\A t \in Tasks :
            (pc[t] = "f_lock_writer" /\ pc'[t] = "f_commit")
                => /\ writerLock[local_index[t]] = NoTask
                   /\ writerLock'[local_index[t]] = t
                   /\ \A u \in Tasks : ~(pc[u] \in {"f_commit", "f_ok"}
                                         /\ local_index[u] = local_index[t])]_vars

\* C3 witness: a second flush of an index is inside commit() after an earlier
\* flush of the same index has returned success.
C3_Witness ==
    \E t \in Tasks, u \in Tasks :
        /\ t # u /\ IsFlush(t) /\ IsFlush(u) /\ req[t].index = req[u].index
        /\ pc[t] = "done" /\ resp[t].status = Some(OK)
        /\ pc[u] = "f_commit" /\ writerLock[local_index[u]] = u

\* C4: no summary task is blocked on a lock whose holder is inside commit()
\* or waiting for a Writer Lock, on the same index or on another one.
C4_SummaryNeverBehindCommit ==
    \A s \in Tasks, t \in Tasks :
        (IsSummary(s) /\ InCommit(t)) => ~BlockedOnCatalogBy(s, t)

\* C5: a summary task has released the Catalog lock before it calls
\* load_metas() and get_space().
C5_SummaryReleasesCatalogBeforeReads ==
    \A t \in Tasks : pc[t] \in {"s_load_metas", "s_sizes"} => catalogLock # t

\* C6: a flush that found its index name absent returns 404 with an empty
\* body, acquires no Writer Lock, performs no commit, and its steps leave the
\* Catalog map, the Writer Locks and every index's committed and buffered
\* state unchanged.
C6_FlushMissingIndex ==
    /\ [](\A t \in Tasks :
            (IsFlush(t) /\ "exists=false" \in calls[t])
                => /\ pc[t] \in {"f_not_found", "done"}
                   /\ calls[t] = {"exists=false"}
                   /\ pc[t] = "done" => HoldsNoLock(t)
                   /\ \A h \in Handles : writerLock[h] # t
                   /\ pc[t] = "done" =>
                        /\ resp[t].kind = "empty"
                        /\ resp[t].status = <<404>>)
    /\ [][\A t \in Tasks :
            (/\ StepOf(t)
             /\ \/ pc[t] = "f_exists" /\ catalog[req[t].index] = NoHandle
                \/ pc[t] = "f_not_found")
                => /\ UNCHANGED <<catalog, writerLock, written, committed>>
                   /\ pc'[t] \in {"f_not_found", "done"}]_vars

\* C6 witness: a flush of an absent name has returned while another index
\* holds buffered, uncommitted documents.
C6_Witness ==
    \E t \in Tasks :
        /\ IsFlush(t) /\ pc[t] = "done" /\ "exists=false" \in calls[t]
        /\ \E h \in Handles : written[h] > committed[h]

\* C7: a flush that found its index returns 200, and from then on
\* load_metas() of that index covers every document that was handed to the
\* writer before the commit started; load_metas() never counts a document
\* that is still buffered.
C7_FlushDurable ==
    /\ \A t \in Tasks :
          (IsFlush(t) /\ pc[t] = "done" /\ "exists=true" \in calls[t])
              => /\ resp[t].kind = "empty"
                 /\ resp[t].status = <<200>>
                 /\ "commit" \in calls[t]
                 /\ load_metas(req[t].index) >= snap[t]
    /\ \A h \in Handles : load_metas(h) <= written[h]
    /\ \A t \in Tasks :
          metas[t] # None => /\ metas[t][1] <= committed[local_index[t]]
                             /\ metas[t][1] <= written[local_index[t]]

\* C7 witness: a flush whose commit covered a buffered document has returned
\* success and a later summary of the same index has read the metadata.
C7_Witness ==
    \E t \in Tasks, s \in Tasks :
        /\ IsFlush(t) /\ pc[t] = "done" /\ resp[t].status = Some(OK)
        /\ snap[t] >= 1
        /\ IsSummary(s) /\ req[s].index = req[t].index
        /\ pc[s] = "s_sizes" /\ metas[s] = Some(snap[t])

\* C8: a summary of an existing index carries a size exactly when
\* include_sizes is set, get_space() is called exactly then and the size is
\* its result; metas is the load_metas() result of the resolved handle.
C8_SummarySizeIffIncludeSizes ==
    /\ [](\A t \in Tasks :
            (IsSummary(t) /\ "exists=true" \in calls[t]) =>
                /\ pc[t] = "s_ok" =>
                     /\ summary[t].metas = <<committed[local_index[t]]>>
                     /\ req[t].include_sizes
                          => summary[t].size = << <<"bytes", committed[local_index[t]]>> >>
                     /\ ~req[t].include_sizes => summary[t].size = <<>>
                     /\ local_index[t] = catalog[req[t].index]
                /\ pc[t] \in {"s_ok", "done"} =>
                     ("get_space" \in calls[t] <=> req[t].include_sizes)
                /\ pc[t] = "done" =>
                     /\ resp[t].kind = "summary"
                     /\ Len(resp[t].metas) = 1
                     /\ Len(resp[t].size) = (IF req[t].include_sizes THEN 1 ELSE 0))
    /\ [][\A t \in Tasks :
            (pc[t] = "s_ok" /\ StepOf(t))
                => /\ pc'[t] = "done"
                   /\ resp'[t].metas = summary[t].metas
                   /\ resp'[t].size = summary[t].size]_vars

\* C8 witness: a summary with include_sizes set has returned the metadata
\* and the size of an index with a committed document.
C8_Witness ==
    \E t \in Tasks :
        /\ IsSummary(t) /\ pc[t] = "done" /\ req[t].include_sizes
        /\ resp[t].metas = Some(1)
        /\ resp[t].size = Some(<<"bytes", 1>>)

\* C9: a summary that found its index name absent returns the error
\* "Index {index} does not exist" with the requested name, reads no metadata
\* or storage footprint, and its steps change no shared state.
C9_SummaryMissingIndex ==
    /\ [](\A t \in Tasks :
            (IsSummary(t) /\ "exists=false" \in calls[t])
                => /\ pc[t] \in {"s_not_found", "done"}
                   /\ calls[t] = {"exists=false"}
                   /\ pc[t] = "done" =>
                        /\ resp[t].kind = "error"
                        /\ resp[t].message = <<"Index ", req[t].index, " does not exist">>
                        /\ resp[t].metas = <<>> /\ resp[t].size = <<>>)
    /\ [][\A t \in Tasks :
            (/\ StepOf(t)
             /\ \/ pc[t] = "s_exists" /\ catalog[req[t].index] = NoHandle
                \/ pc[t] = "s_not_found")
                => /\ UNCHANGED <<catalog, writerLock, written, committed>>
                   /\ pc'[t] \in {"s_not_found", "done"}]_vars

\* C9 witness: a summary of an absent name has returned its error while the
\* other index is registered and has a committed document.
C9_Witness ==
    \E t \in Tasks :
        /\ IsSummary(t) /\ pc[t] = "done" /\ resp[t].kind = "error"
        /\ catalog[req[t].index] = NoHandle
        /\ \E h \in Handles : committed[h] >= 1

\* C10: a handler in which commit() or load_metas() was called always ends
\* normally with a response (success or an explicit failure), never by
\* aborting, and holds no lock once it has ended.
C10_EngineFailureSurfaced ==
    \A t \in Tasks :
        (pc[t] \in {"done", "panicked"} /\ calls[t] \cap {"commit", "load_metas"} # {})
            => /\ pc[t] = "done"
               /\ resp[t].kind # "none"
               /\ HoldsNoLock(t)

\* ----------------------------------------------------------- shard claims
IsPrimary(i) == shards[i].kind = "primary"
IsReplica(i) == shards[i].kind = "replica"
HasHandle(i) == shards[i].index_handle # None

\* C11: every Primary shard, fresh or carrying a handle, answers
\* is_primary() with true and primary_shard_id() with absent.
C11_PrimaryRole ==
    \A i \in Slots :
        IsPrimary(i) => /\ is_primary(shards[i]) = TRUE
                        /\ primary_shard_id(shards[i]) = <<>>

\* C11 witness: a Primary that has come back from a successful with_index.
C11_Witness ==
    /\ lastOp.op = "with_index" /\ lastOp.ok
    /\ IsPrimary(lastOp.slot) /\ HasHandle(lastOp.slot)

\* C12: every Replica shard answers is_primary() with false and
\* primary_shard_id() with the id it was constructed from, freshly created
\* and for as long as it lives (with_index included).
C12_ReplicaRole ==
    /\ [](\A i \in Slots :
            IsReplica(i) => /\ is_primary(shards[i]) = FALSE
                            /\ Len(primary_shard_id(shards[i])) = 1)
    /\ []((lastOp.op = "new" /\ IsReplica(lastOp.slot))
            => primary_shard_id(shards[lastOp.slot]) = lastOp.wire)
    /\ [][\A i \in Slots :
            (IsReplica(i) /\ shards'[i] # NoShard)
                => /\ is_primary(shards'[i]) = FALSE
                   /\ primary_shard_id(shards'[i]) = primary_shard_id(shards[i])]_vars

\* C12 witness: a Replica, built from a primary id different from its own
\* id, that has come back from a successful with_index.
C12_Witness ==
    /\ lastOp.op = "with_index" /\ lastOp.ok
    /\ IsReplica(lastOp.slot) /\ HasHandle(lastOp.slot)
    /\ shards[lastOp.slot].primary_shard_id # shards[lastOp.slot].shard_id

\* C13: index_name() is an IOError exactly when the shard has no handle, and
\* right after with_index(engine, N) succeeded it is exactly N.
C13_IndexName ==
    \A i \in Slots :
        shards[i] # NoShard =>
            LET r == index_name(shards[i])
            IN /\ r.ok <=> HasHandle(i)
               /\ ~r.ok => Len(r.error) = 2 /\ r.error[1] = "IOError"
               /\ (lastOp.op = "with_index" /\ lastOp.ok /\ lastOp.slot = i)
                     => r.ok /\ r.value = lastOp.wire[1]

\* C13 witness: a Primary without a handle next to a Replica whose
\* with_index has just succeeded.
C13_Witness ==
    /\ lastOp.op = "with_index" /\ lastOp.ok /\ IsReplica(lastOp.slot)
    /\ \E i \in Slots : IsPrimary(i) /\ ~HasHandle(i)

\* C14: while a shard lives its shard_id(), is_primary() and
\* primary_shard_id() never change; with_index returns the same identity
\* with the handle on Ok, and on Err an IOError and no shard; a handle gets
\* attached only by a successful with_index.
C14_IdentityFixed ==
    [][\A i \in Slots :
         /\ (shards[i] # NoShard /\ shards'[i] # NoShard)
               => /\ shard_id(shards'[i]) = shard_id(shards[i])
                  /\ is_primary(shards'[i]) = is_primary(shards[i])
                  /\ primary_shard_id(shards'[i]) = primary_shard_id(shards[i])
                  /\ shards'[i].kind = shards[i].kind
         /\ (shards'[i].index_handle # None
             /\ shards'[i].index_handle # shards[i].index_handle)
               => /\ lastOp'.op = "with_index" /\ lastOp'.ok /\ lastOp'.slot = i
                  /\ shards[i] # NoShard
         /\ (lastOp'.op = "with_index" /\ lastOp'.slot = i /\ lastOp' # lastOp)
               => IF lastOp'.ok
                     THEN shards'[i] = [shards[i] EXCEPT !.index_handle = lastOp'.wire]
                     ELSE /\ shards'[i] = NoShard
                          /\ lastOp'.error[1] = "IOError"]_vars

\* C14 witness: with_index has just attached idx_b to a Primary while a
\* Replica carries idx_a.
C14_Witness ==
    /\ lastOp.op = "with_index" /\ lastOp.ok /\ IsPrimary(lastOp.slot)
    /\ shards[lastOp.slot].index_handle = <<"idx_b">>
    /\ \E j \in Slots : IsReplica(j) /\ shards[j].index_handle = <<"idx_a">>

\* C15: the serialized form holds the ids and never the handle; the shard
\* deserialized from it has the source's shard_id, role and primary id and no
\* handle, so its index_name() is an IOError.
C15_HandleNotSerialized ==
    /\ lastOp.op \in {"serialize", "deserialize"} =>
          \A k \in 1..Len(lastOp.wire) :
              lastOp.wire[k][1] \in {"shard_id", "primary_shard_id"}
    /\ lastOp.op = "deserialize" =>
          LET src == shards[lastOp.src]
              dst == shards[lastOp.slot]
          IN /\ shard_id(dst) = shard_id(src)
             /\ is_primary(dst) = is_primary(src)
             /\ primary_shard_id(dst) = primary_shard_id(src)
             /\ dst.index_handle = <<>>
             /\ ~index_name(dst).ok
             /\ index_name(dst).error[1] = "IOError"

\* C15 witness: a Replica carrying a handle has been serialized and
\* deserialized.
C15_Witness ==
    /\ lastOp.op = "deserialize"
    /\ IsReplica(lastOp.src) /\ HasHandle(lastOp.src)
    /\ shards[lastOp.src].primary_shard_id # shards[lastOp.src].shard_id

\* ------------------------------------------------ claims on cancellation
\* C16: a flush cancelled while it waits for the Catalog lock or for the
\* Writer Lock has not committed and never will, its cancellation leaves the
\* Catalog and every index's state unchanged, and afterwards it holds
\* neither the Catalog lock nor a Writer Lock.
C16_CancelledFlushNeverCommits ==
    /\ [](\A t \in Tasks :
            pc[t] = "cancelled"
                => /\ HoldsNoLock(t)
                   /\ calls[t] \cap {"writer_lock", "commit"} = {}
                   /\ resp[t].kind = "none")
    /\ [][\A t \in Tasks :
            /\ (pc[t] # "cancelled" /\ pc'[t] = "cancelled")
                  => /\ pc[t] \in {"f_lock_catalog", "s_lock_catalog", "f_lock_writer"}
                     /\ UNCHANGED <<catalog, written, committed>>
                     /\ \A u \in Tasks \ {t} : pc'[u] = pc[u]
            /\ pc[t] = "cancelled"
                  => /\ pc'[t] = "cancelled"
                     /\ calls'[t] = calls[t]]_vars

\* C16 witness: a flush was cancelled while waiting for the Writer Lock, with
\* a document still buffered on its index, and another task has since taken
\* the Catalog lock.
C16_Witness ==
    \E t \in Tasks, u \in Tasks :
        /\ t # u
        /\ IsFlush(t) /\ pc[t] = "cancelled" /\ "get_index" \in calls[t]
        /\ catalogLock = u
        /\ \E h \in Handles : written[h] > committed[h]

LockOrder ==
    \A t \in Tasks :
        pc[t] \in {"f_lock_catalog", "s_lock_catalog"}
            => \A h \in Handles : writerLock[h] # t

\* Every started request that is not cancelled comes to an end (a response
\* or a panic) and holds no lock from then on.
RequestsEnd ==
    \A t \in Tasks :
        (pc[t] # "idle") ~> [](pc[t] \in {"done", "panicked"} /\ HoldsNoLock(t))

\* C18: locks are taken in the order Catalog lock, Writer Lock, and under
\* fair locks and terminating I/O every started flush or summary eventually
\* returns a response, holding no lock at that point.
C18_EveryRequestReturns ==
    /\ []LockOrder
    /\ \A t \in Tasks :
          (pc[t] # "idle")
              ~> (pc[t] = "done" /\ resp[t].kind # "none" /\ HoldsNoLock(t))

\* C19: the handle lookup runs on the Catalog state the existence check saw:
\* the handler still holds the Catalog lock and the name is still registered
\* when it calls get_index, so the unwrap never fails (a panic only follows a
\* failed commit() or load_metas()), and the handle it works on is the one
\* registered under its index name.
C19_ExistsThenGetIndex ==
    \A t \in Tasks :
        /\ pc[t] \in {"f_get_index", "s_get_index"}
              => /\ catalogLock = t
                 /\ exists(req[t].index)
                 /\ "exists=true" \in calls[t]
        /\ pc[t] = "panicked" => calls[t] \cap {"commit", "load_metas"} # {}
        /\ local_index[t] # NoHandle
              => /\ get_index(req[t].index) = <<local_index[t]>>
                 /\ "get_index" \in calls[t]

\* C19 witness: a handler works on the handle of idx_b, registered after an
\* earlier request found that name missing, while idx_a is not registered.
C19_Witness ==
    \E t \in Tasks, u \in Tasks :
        /\ pc[t] \in {"s_load_metas", "f_lock_writer"}
        /\ local_index[t] = "idx_b"
        /\ catalog["idx_a"] = NoHandle
        /\ pc[u] = "done" /\ req[u].index = "idx_b" /\ "exists=false" \in calls[u]

====
